---- MODULE Spec2Model ----
(***************************************************************************)
(* A model of `str`, a line-oriented string manipulation filter            *)
(* (src/src/main.rs).  The program parses one Operation, then for every    *)
(* line of standard input runs Operation::execute on it and prints the     *)
(* Output.  Text is modelled as a sequence of one-character strings; all   *)
(* characters are ASCII, so byte offsets and character offsets coincide.   *)
(***************************************************************************)
EXTENDS Integers, Sequences, FiniteSets, TLC

(***************************************************************************)
(* Bounds of the model.                                                    *)
(***************************************************************************)
\* longest input line, in bytes
MaxLen == 3
\* largest magnitude of an optional count (`number`)
MaxNum == 2
\* largest magnitude of an `offset`
MaxOff == 2
\* most spare bytes String::capacity() may report beyond len()
MaxSlack == 1

\* the bytes an input line or a pattern is made of: a letter and a blank
Chars == {"a", " "}
\* longest pattern
MaxPatLen == MaxLen - 1
\* largest index argument: one past the longest line
MaxIdx == MaxLen + 1
\* most bytes standard input holds: the longest line and its newline
MaxStdin == MaxLen + 1

StrUpTo(S, n) == UNION {[1..k -> S] : k \in 0..n}
Lines == StrUpTo(Chars, MaxLen)
Patterns == StrUpTo(Chars, MaxPatLen)
\* the replacement texts of Replace
Replacements == {<<>>, <<"b">>, <<"a", "a">>}
Indices == 0..MaxIdx
Offsets == (0 - MaxOff)..MaxOff
\* Option<i64>: <<>> is None, <<n>> is Some(n)
Numbers == {<<>>} \cup {<<n>> : n \in (0 - MaxNum)..MaxNum}

(***************************************************************************)
(* usize arithmetic.  A 64-bit unsigned value v is represented by the      *)
(* integer v when v < 2^63 and by v - 2^64 otherwise (its two's complement *)
(* reading), so `x as usize` of an i64 x is represented by x itself, the   *)
(* wrapped sum or difference of two values is the plain integer sum or     *)
(* difference of their representatives, and the operators below say when   *)
(* the exact result leaves 0..2^64-1 and how two values compare.  All      *)
(* values of the model are within MaxLen + MaxIdx + MaxOff of 0 or of 2^64.*)
(***************************************************************************)
ULt(a, b) == IF (a < 0) = (b < 0) THEN a < b ELSE b < 0
ULe(a, b) == a = b \/ ULt(a, b)
\* a + b exceeds usize::MAX
AddOverflows(a, b) == (a < 0 /\ b < 0) \/ ((a < 0 \/ b < 0) /\ a + b >= 0)
\* a - b is below zero
SubOverflows(a, b) == ULt(a, b)
Abs(x) == IF x < 0 THEN 0 - x ELSE x
MinOf(a, b) == IF a < b THEN a ELSE b

(***************************************************************************)
(* The string functions of the standard library the program calls.         *)
(***************************************************************************)
RECURSIVE Flatten(_)
Flatten(ss) == IF ss = <<>> THEN <<>> ELSE ss[1] \o Flatten(Tail(ss))

\* [&str]::join(sep)
RECURSIVE join(_, _)
join(ss, sep) ==
    IF ss = <<>> THEN <<>>
    ELSE IF Len(ss) = 1 THEN ss[1]
    ELSE ss[1] \o sep \o join(Tail(ss), sep)

\* pattern p occurs in s at byte offset i
MatchAt(s, p, i) ==
    /\ i >= 0
    /\ i + Len(p) <= Len(s)
    /\ SubSeq(s, i + 1, i + Len(p)) = p

Occurrences(s, p) == {i \in 0..Len(s) : MatchAt(s, p, i)}

\* Option<usize>: <<>> is None, <<i>> is Some(i)
find(s, p) ==
    LET I == Occurrences(s, p)
    IN  IF I = {} THEN <<>> ELSE <<CHOOSE i \in I : \A j \in I : i <= j>>

rfind(s, p) ==
    LET I == Occurrences(s, p)
    IN  IF I = {} THEN <<>> ELSE <<CHOOSE i \in I : \A j \in I : j <= i>>

unwrap_or(opt, default) == IF opt = <<>> THEN default ELSE opt[1]

\* start offsets of the non-overlapping matches of p, searching forward from i
RECURSIVE match_indices(_, _, _)
match_indices(s, p, i) ==
    IF i > Len(s) THEN <<>>
    ELSE IF MatchAt(s, p, i)
         THEN <<i>> \o match_indices(s, p, IF p = <<>> THEN i + 1 ELSE i + Len(p))
         ELSE match_indices(s, p, i + 1)

\* start offsets of the non-overlapping matches of p, searching backward from e
RECURSIVE rmatch_indices(_, _, _)
rmatch_indices(s, p, e) ==
    IF e < 0 THEN <<>>
    ELSE IF MatchAt(s, p, e - Len(p))
         THEN <<e - Len(p)>>
              \o rmatch_indices(s, p, IF p = <<>> THEN e - 1 ELSE e - Len(p))
         ELSE rmatch_indices(s, p, e - 1)

\* the pieces of s between the matches ms (ascending), from offset `from` on
RECURSIVE Pieces(_, _, _, _)
Pieces(s, ms, lp, from) ==
    IF ms = <<>> THEN <<SubSeq(s, from + 1, Len(s))>>
    ELSE <<SubSeq(s, from + 1, ms[1])>> \o Pieces(s, Tail(ms), lp, ms[1] + lp)

\* the pieces of s between the matches ms (descending), rightmost piece first
RECURSIVE RPieces(_, _, _, _)
RPieces(s, ms, lp, to) ==
    IF ms = <<>> THEN <<SubSeq(s, 1, to)>>
    ELSE <<SubSeq(s, ms[1] + lp + 1, to)>> \o RPieces(s, Tail(ms), lp, ms[1])

\* split, were the empty pieces left out
split_skip_empty(s, p) ==
    SelectSeq(Pieces(s, match_indices(s, p, 0), Len(p), 0),
              LAMBDA piece : piece # <<>>)

\* str::split(pat)
split(s, p) == Pieces(s, match_indices(s, p, 0), Len(p), 0)

\* str::splitn(n, pat): at most n items, the last one the unsplit remainder
splitn(s, n, p) ==
    LET ms == match_indices(s, p, 0)
    IN  IF n = 0 THEN <<>>
        ELSE Pieces(s, SubSeq(ms, 1, MinOf(n - 1, Len(ms))), Len(p), 0)

\* str::rsplitn(n, pat): at most n items from the right, the last one the
\* unsplit left remainder
rsplitn(s, n, p) ==
    LET ms == rmatch_indices(s, p, Len(s))
    IN  IF n = 0 THEN <<>>
        ELSE RPieces(s, SubSeq(ms, 1, MinOf(n - 1, Len(ms))), Len(p), Len(s))

is_whitespace(c) == c = " "

\* str::split_whitespace(): the maximal runs of non-whitespace bytes
RECURSIVE split_whitespace(_)
split_whitespace(s) ==
    IF s = <<>> THEN <<>>
    ELSE IF is_whitespace(s[1]) THEN split_whitespace(Tail(s))
    ELSE LET stops == {i \in 1..Len(s) : is_whitespace(s[i])}
             n == IF stops = {} THEN Len(s)
                  ELSE (CHOOSE i \in stops : \A j \in stops : i <= j) - 1
         IN  <<SubSeq(s, 1, n)>> \o split_whitespace(SubSeq(s, n + 1, Len(s)))

Reverse(ss) == [i \in 1..Len(ss) |-> ss[Len(ss) + 1 - i]]

\* Iterator::take(n)
take(ss, n) == SubSeq(ss, 1, MinOf(n, Len(ss)))

\* str::trim()
RECURSIVE trim_start(_)
trim_start(s) ==
    IF s # <<>> /\ is_whitespace(s[1]) THEN trim_start(Tail(s)) ELSE s

RECURSIVE trim_end(_)
trim_end(s) ==
    IF s # <<>> /\ is_whitespace(s[Len(s)])
    THEN trim_end(SubSeq(s, 1, Len(s) - 1)) ELSE s

\* str::trim_start_matches(pat): an empty pattern strips nothing
RECURSIVE trim_start_matches(_, _)
trim_start_matches(s, p) ==
    IF p # <<>> /\ MatchAt(s, p, 0)
    THEN trim_start_matches(SubSeq(s, Len(p) + 1, Len(s)), p) ELSE s

RECURSIVE trim_end_matches(_, _)
trim_end_matches(s, p) ==
    IF p # <<>> /\ MatchAt(s, p, Len(s) - Len(p))
    THEN trim_end_matches(SubSeq(s, 1, Len(s) - Len(p)), p) ELSE s

(***************************************************************************)
(* Output (main.rs 3-6) and the ways a call of execute can end.  Besides   *)
(* the two Output variants a call can end the process: "Exit" is           *)
(* eprintln! followed by std::process::exit(1), "Panic" is a Rust panic    *)
(* (a slice index out of range, or an arithmetic overflow in a build with  *)
(* overflow checks).  `ranges` lists the byte ranges the call handed to    *)
(* string slicing, in order: a..b, a.. (which ends at the length of the    *)
(* string) and ..b (which starts at 0).                                    *)
(***************************************************************************)
Rng(a, b) == [start |-> a, end |-> b, form |-> "a..b"]
RngFrom(a, s) == [start |-> a, end |-> Len(s), form |-> "a.."]
RngTo(b) == [start |-> 0, end |-> b, form |-> "..b"]
Single(t) == [kind |-> "Single", segs |-> <<t>>, diag |-> "", ranges |-> <<>>]
Multiple(v) == [kind |-> "Multiple", segs |-> v, diag |-> "", ranges |-> <<>>]
Exit(msg) == [kind |-> "Exit", segs |-> <<>>, diag |-> msg, ranges |-> <<>>]
Panic(msg, rs) == [kind |-> "Panic", segs |-> <<>>, diag |-> msg, ranges |-> rs]

\* the builds of the program: overflow checks on (debug) or off (release)
Builds == {"debug", "release"}
\* an arithmetic step that overflowed panics in a debug build and wraps in a
\* release build
Checked(build, overflowed, outcome) ==
    IF build = "debug" /\ overflowed
    THEN Panic("attempt to compute with overflow", <<>>)
    ELSE outcome

\* str indexing accepts start..end when start <= end <= len
ValidRange(s, r) == ULe(r.start, r.end) /\ ULe(r.end, Len(s))
Slice(s, r) == SubSeq(s, r.start + 1, r.end)

\* input[r1] + input[r2] + ...: the slices are taken in order; the first
\* range that is not valid panics
Sliced(input, rs) ==
    LET bad == {i \in 1..Len(rs) : ~ValidRange(input, rs[i])}
    IN  IF bad = {}
        THEN [Single(Flatten([i \in 1..Len(rs) |-> Slice(input, rs[i])]))
                EXCEPT !.ranges = rs]
        ELSE Panic("byte index out of range",
                   SubSeq(rs, 1, CHOOSE i \in bad : \A j \in bad : i <= j))

(***************************************************************************)
(* mod op_functions (main.rs 209-451)                                      *)
(***************************************************************************)
\* ---- Pattern-Based ----
split_at_whitespace(number, input) ==
    IF number = <<>> THEN Multiple(split_whitespace(input))
    ELSE IF number[1] < 0
         THEN Multiple(take(Reverse(split_whitespace(input)), Abs(number[1])))
    ELSE IF number[1] > 0
         THEN Multiple(take(split_whitespace(input), number[1]))
    ELSE Single(input)

split_at_pat(number, pattern, input) ==
    IF number = <<>> THEN Multiple(split(input, pattern))
    ELSE IF number[1] < 0
         THEN Multiple(rsplitn(input, Abs(number[1]), pattern))
    ELSE IF number[1] > 0
         THEN Multiple(splitn(input, number[1], pattern))
    ELSE Single(input)

split_at_char(number, char, input) ==
    IF number = <<>> THEN Multiple(split(input, <<char>>))
    ELSE IF number[1] < 0
         THEN Multiple(rsplitn(input, Abs(number[1]), <<char>>))
    ELSE IF number[1] > 0
         THEN Multiple(splitn(input, number[1], <<char>>))
    ELSE Single(input)

\* cut_from_pat, were the last occurrence of the pattern searched for
cut_from_pat_last(pattern, input) ==
    Sliced(input, <<RngFrom(unwrap_or(rfind(input, pattern), 0), input)>>)

cut_from_pat(pattern, input) ==
    Sliced(input, <<RngFrom(unwrap_or(find(input, pattern), 0), input)>>)

\* `capacity` is input.capacity(): any value >= input.len()
cut_from_pat_to_pat(start, end, input, capacity) ==
    Sliced(input, <<Rng(unwrap_or(find(input, start), 0),
                        unwrap_or(rfind(input, end), capacity))>>)

cut_from_pat_to_offset(pattern, offset, input, build) ==
    LET start_idx == unwrap_or(find(input, pattern), 0)
        \* offset as usize + start_idx > input.len() - 1
        past == ULt(Len(input) - 1, offset + start_idx)
    IN  Checked(build,
                AddOverflows(offset, start_idx) \/ SubOverflows(Len(input), 1),
                IF past THEN Exit("Offset exits bounds of input")
                ELSE Sliced(input,
                            <<IF offset < 0
                              THEN Rng(start_idx + Abs(offset), start_idx)
                              ELSE Rng(start_idx, start_idx + offset)>>))

cut_until_pat(pattern, input) ==
    Sliced(input, <<RngTo(unwrap_or(find(input, pattern), Len(input)))>>)

trim_from_pat(pattern, input) ==
    Sliced(input, <<RngFrom(unwrap_or(find(input, pattern), 0), input)>>)

\* the default input.len() - 1 is computed whether or not `end` is found
trim_from_pat_to_pat(start, end, input, build) ==
    Checked(build, SubOverflows(Len(input), 1),
            Sliced(input, <<Rng(unwrap_or(find(input, start), 0),
                                unwrap_or(rfind(input, end), Len(input) - 1))>>))

trim_until_pat(pattern, input) ==
    Sliced(input, <<RngFrom(unwrap_or(find(input, pattern), 0), input)>>)

trim_to_pat(pattern, input) ==
    Sliced(input, <<RngFrom(unwrap_or(find(input, pattern), 0) + Len(input),
                            input)>>)

\* Option<String>: <<>> is None, <<p>> is Some(p)
trim(pattern, input) ==
    Single(IF pattern = <<>> THEN trim_end(trim_start(input))
           ELSE trim_end_matches(trim_start_matches(input, pattern[1]),
                                 pattern[1]))

\* replace, were the pieces concatenated without `with` when no count is
\* given, as they are when a count is given
replace_no_with(pattern, with, number, input) ==
    Single(IF number = <<>> THEN Flatten(split(input, pattern))
           ELSE IF number[1] < 0
                THEN Flatten(rsplitn(input, Abs(number[1]), pattern))
           ELSE IF number[1] = 0 THEN input
           ELSE Flatten(splitn(input, number[1], pattern)))

replace(pattern, with, number, input) ==
    Single(IF number = <<>> THEN join(split(input, pattern), with)
           ELSE IF number[1] < 0
                THEN Flatten(rsplitn(input, Abs(number[1]), pattern))
           ELSE IF number[1] = 0 THEN input
           ELSE Flatten(splitn(input, number[1], pattern)))

\* ---- Index-Based ----
\* split_at_index, were the empty halves left out
split_at_index_skip_empty(index, input) ==
    IF ULe(index, Len(input))
    THEN [Multiple(SelectSeq(<<SubSeq(input, 1, index),
                               SubSeq(input, index + 1, Len(input))>>,
                             LAMBDA half : half # <<>>))
            EXCEPT !.ranges = <<RngTo(index), RngFrom(index, input)>>]
    ELSE Panic("byte index out of range", <<>>)

split_at_index(index, input) ==
    IF ULe(index, Len(input))
    THEN [Multiple(<<SubSeq(input, 1, index),
                     SubSeq(input, index + 1, Len(input))>>)
            EXCEPT !.ranges = <<RngTo(index), RngFrom(index, input)>>]
    ELSE Panic("byte index out of range", <<>>)

cut_from_index(index, input) == Sliced(input, <<RngFrom(index, input)>>)

cut_from_index_to_index(start, end, input) ==
    Sliced(input, <<Rng(start, end)>>)

cut_from_index_to_offset(index, offset, input, build) ==
    IF offset < 0
    THEN \* index + (offset as usize - 1)..index
         Checked(build, AddOverflows(index, offset - 1),
                 Sliced(input, <<Rng(index + (offset - 1), index)>>))
    ELSE Sliced(input, <<Rng(index, index + offset)>>)

\* cut_until_index, were index 0 taken as a cut of no bytes
cut_until_index_zero_cut(index, input) == Sliced(input, <<RngTo(index)>>)

cut_until_index(index, input) ==
    Sliced(input, <<RngTo(IF index # 0 THEN index ELSE Len(input))>>)

trim_from_index(index, input) ==
    Sliced(input, <<RngTo(IF index # 0 THEN index ELSE Len(input))>>)

\* trim_from_index_to_index, were the test end <= start left out
trim_from_index_to_index_unguarded(start, end, input) ==
    Sliced(input, <<RngTo(start), RngFrom(end, input)>>)

trim_from_index_to_index(start, end, input) ==
    IF end <= start THEN Single(input)
    ELSE Sliced(input, <<RngTo(start), RngFrom(end, input)>>)

trim_from_index_to_offset(index, offset, input, build) ==
    IF offset < 0
    THEN \* input[..index + offset as usize] + input[index + 1..]
         Checked(build, AddOverflows(index, offset),
                 Sliced(input, <<RngTo(index + offset),
                                 RngFrom(index + 1, input)>>))
    ELSE Sliced(input, <<RngTo(index), RngFrom(index + offset, input)>>)

trim_until_index(index, input) == Sliced(input, <<RngFrom(index, input)>>)

\* ---- Mixed ----
\* cut_from_pat_to_index, were the case index == found_idx left out
cut_from_pat_to_index_no_equal(pattern, index, input) ==
    LET found_idx == unwrap_or(find(input, pattern), 0)
    IN  IF index < found_idx THEN Exit("Pattern was found before desired index")
        ELSE Sliced(input, <<Rng(found_idx, index)>>)

cut_from_pat_to_index(pattern, index, input) ==
    LET found_idx == unwrap_or(find(input, pattern), 0)
    IN  IF index < found_idx THEN Exit("Pattern was found before desired index")
        ELSE IF index = found_idx THEN Single(input)
        ELSE Sliced(input, <<Rng(found_idx, index)>>)

cut_from_index_to_pat(index, pattern, input) ==
    LET found_idx == unwrap_or(find(input, pattern), 0)
    IN  IF index > found_idx
        THEN Exit("First pattern instance was found after desired index")
        ELSE IF index = found_idx THEN Single(input)
        ELSE Sliced(input, <<Rng(index, found_idx)>>)

trim_from_pat_to_index(pattern, index, input) ==
    LET found_idx == unwrap_or(find(input, pattern), 0)
    IN  IF index < found_idx THEN Exit("Pattern was found before desired index")
        ELSE IF index = found_idx THEN Single(input)
        ELSE Sliced(input, <<RngTo(found_idx), RngFrom(index, input)>>)

trim_from_index_to_pat(index, pattern, input) ==
    LET found_idx == unwrap_or(find(input, pattern), 0)
    IN  IF index > found_idx
        THEN Exit("First pattern was found after desired index")
        ELSE IF index = found_idx THEN Single(input)
        ELSE Sliced(input, <<RngTo(index), RngFrom(found_idx, input)>>)

(***************************************************************************)
(* enum Operation (main.rs 8-156): a tag and the parameters of the tag.    *)
(***************************************************************************)
Operations ==
    [tag : {"SplitAtWhitespace"}, number : Numbers]
    \cup [tag : {"SplitAtPat"}, pattern : Patterns, number : Numbers]
    \cup [tag : {"SplitAtChar"}, char : Chars, number : Numbers]
    \cup [tag : {"CutFromPat", "CutUntilPat", "TrimFromPat", "TrimUntilPat",
                 "TrimToPat"}, pattern : Patterns]
    \cup [tag : {"CutFromPatToPat", "TrimFromPatToPat"},
          start : Patterns, end : Patterns]
    \cup [tag : {"CutFromPatToOffset"}, pattern : Patterns, offset : Offsets]
    \cup [tag : {"Trim"}, pattern : {<<>>} \cup {<<p>> : p \in Patterns}]
    \cup [tag : {"Replace"}, pattern : Patterns, with : Replacements,
          number : Numbers]
    \cup [tag : {"Remove"}, pattern : Patterns, number : Numbers]
    \cup [tag : {"SplitAtIndex", "CutFromIndex", "CutUntilIndex",
                 "TrimFromIndex", "TrimUntilIndex"}, index : Indices]
    \cup [tag : {"CutFromIndexToIndex", "TrimFromIndexToIndex"},
          start : Indices, end : Indices]
    \cup [tag : {"CutFromIndexToOffset", "TrimFromIndexToOffset"},
          index : Indices, offset : Offsets]
    \cup [tag : {"CutFromPatToIndex", "CutFromIndexToPat",
                 "TrimFromPatToIndex", "TrimFromIndexToPat"},
          pattern : Patterns, index : Indices]

\* impl Default for Operation
default_operation == [tag |-> "SplitAtWhitespace", number |-> <<>>]

\* Operation::execute (main.rs 165-206)
execute(op, input, capacity, build) ==
    CASE op.tag = "SplitAtWhitespace" -> split_at_whitespace(op.number, input)
      [] op.tag = "SplitAtPat" -> split_at_pat(op.number, op.pattern, input)
      [] op.tag = "SplitAtChar" -> split_at_char(op.number, op.char, input)
      [] op.tag = "CutFromPat" -> cut_from_pat(op.pattern, input)
      [] op.tag = "CutFromPatToPat" ->
            cut_from_pat_to_pat(op.start, op.end, input, capacity)
      [] op.tag = "CutFromPatToOffset" ->
            cut_from_pat_to_offset(op.pattern, op.offset, input, build)
      [] op.tag = "CutUntilPat" -> cut_until_pat(op.pattern, input)
      [] op.tag = "TrimFromPat" -> trim_from_pat(op.pattern, input)
      [] op.tag = "TrimFromPatToPat" ->
            trim_from_pat_to_pat(op.start, op.end, input, build)
      [] op.tag = "TrimUntilPat" -> trim_until_pat(op.pattern, input)
      [] op.tag = "TrimToPat" -> trim_to_pat(op.pattern, input)
      [] op.tag = "Trim" -> trim(op.pattern, input)
      [] op.tag = "Replace" -> replace(op.pattern, op.with, op.number, input)
      [] op.tag = "Remove" -> replace(op.pattern, <<>>, op.number, input)
      [] op.tag = "SplitAtIndex" -> split_at_index(op.index, input)
      [] op.tag = "CutFromIndex" -> cut_from_index(op.index, input)
      [] op.tag = "CutFromIndexToIndex" ->
            cut_from_index_to_index(op.start, op.end, input)
      [] op.tag = "CutFromIndexToOffset" ->
            cut_from_index_to_offset(op.index, op.offset, input, build)
      [] op.tag = "CutUntilIndex" -> cut_until_index(op.index, input)
      [] op.tag = "TrimFromIndex" -> trim_from_index(op.index, input)
      [] op.tag = "TrimFromIndexToIndex" ->
            trim_from_index_to_index(op.start, op.end, input)
      [] op.tag = "TrimFromIndexToOffset" ->
            trim_from_index_to_offset(op.index, op.offset, input, build)
      [] op.tag = "TrimUntilIndex" -> trim_until_index(op.index, input)
      [] op.tag = "CutFromPatToIndex" ->
            cut_from_pat_to_index(op.pattern, op.index, input)
      [] op.tag = "CutFromIndexToPat" ->
            cut_from_index_to_pat(op.index, op.pattern, input)
      [] op.tag = "TrimFromPatToIndex" ->
            trim_from_pat_to_index(op.pattern, op.index, input)
      [] op.tag = "TrimFromIndexToPat" ->
            trim_from_index_to_pat(op.index, op.pattern, input)

\* the text println! writes for an Output (main.rs 465-466)
Render(out) ==
    IF out.kind = "Multiple" THEN join(out.segs, <<"\n">>) \o <<"\n">>
    ELSE out.segs[1] \o <<"\n">>

\* the capacities a String of this length can have
Capacities(input) == Len(input)..(Len(input) + MaxSlack)

(***************************************************************************)
(* fn main (main.rs 461-469) as a state machine.                           *)
(***************************************************************************)
VARIABLES
    operation,  \* the parsed Operation, built once before the loop
    build,      \* whether the binary checks arithmetic overflow
    pc,         \* "iter": at the head of the for loop; "exec": a line was
                \* read and is about to be executed; "done": process ended
    consumed,   \* the lines read from standard input so far, in order
    line,       \* the line of the current iteration (`i`)
    result,     \* how the last call of execute ended
    stdout,     \* the texts written to standard output so far, in order
    stderr,     \* the diagnostics written to standard error so far
    status      \* "running", or the exit status of the process

vars == <<operation, build, pc, consumed, line, result, stdout, stderr, status>>

NoResult == [kind |-> "None", segs |-> <<>>, diag |-> "", ranges |-> <<>>]

\* the bytes of standard input taken up by the lines ls, a newline after each
RECURSIVE StdinBytes(_)
StdinBytes(ls) ==
    IF ls = <<>> THEN 0 ELSE Len(ls[1]) + 1 + StdinBytes(Tail(ls))

Init ==
    /\ operation \in Operations
    /\ build \in Builds
    /\ pc = "iter"
    /\ consumed = <<>>
    /\ line = <<>>
    /\ result = NoResult
    /\ stdout = <<>>
    /\ stderr = <<>>
    /\ status = "running"

\* stdin().lines() yields the next line; standard input holds at most
\* MaxStdin bytes
ReadLine ==
    /\ pc = "iter"
    /\ \E l \in Lines :
          /\ StdinBytes(Append(consumed, l)) <= MaxStdin
          /\ consumed' = Append(consumed, l)
          /\ line' = l
    /\ pc' = "exec"
    /\ UNCHANGED <<operation, build, result, stdout, stderr, status>>

\* Emit, were the loop to execute the first line it read again instead of
\* the line of this iteration
Emit_first_line ==
    /\ pc = "exec"
    /\ \E capacity \in Capacities(consumed[1]) :
          LET out == execute(operation, consumed[1], capacity, build)
          IN  /\ out.kind \in {"Single", "Multiple"}
              /\ result' = out
              /\ stdout' = Append(stdout, Render(out))
    /\ pc' = "iter"
    /\ UNCHANGED <<operation, build, consumed, line, stderr, status>>

\* execute returned an Output: it is printed and the loop goes on
Emit ==
    /\ pc = "exec"
    /\ \E capacity \in Capacities(line) :
          LET out == execute(operation, line, capacity, build)
          IN  /\ out.kind \in {"Single", "Multiple"}
              /\ result' = out
              /\ stdout' = Append(stdout, Render(out))
    /\ pc' = "iter"
    /\ UNCHANGED <<operation, build, consumed, line, stderr, status>>

\* ExitFatal, were the diagnostic printed without ending the process
ExitFatal_no_exit ==
    /\ pc = "exec"
    /\ \E capacity \in Capacities(line) :
          LET out == execute(operation, line, capacity, build)
          IN  /\ out.kind = "Exit"
              /\ result' = out
              /\ stderr' = Append(stderr, out.diag)
    /\ pc' = "iter"
    /\ UNCHANGED <<operation, build, consumed, line, stdout, status>>

\* execute printed a diagnostic and called std::process::exit(1)
ExitFatal ==
    /\ pc = "exec"
    /\ \E capacity \in Capacities(line) :
          LET out == execute(operation, line, capacity, build)
          IN  /\ out.kind = "Exit"
              /\ result' = out
              /\ stderr' = Append(stderr, out.diag)
    /\ pc' = "done"
    /\ status' = "1"
    /\ UNCHANGED <<operation, build, consumed, line, stdout>>

\* execute panicked: the panic message goes to standard error and the
\* process ends with status 101
PanicAbort ==
    /\ pc = "exec"
    /\ \E capacity \in Capacities(line) :
          LET out == execute(operation, line, capacity, build)
          IN  /\ out.kind = "Panic"
              /\ result' = out
              /\ stderr' = Append(stderr, out.diag)
    /\ pc' = "done"
    /\ status' = "101"
    /\ UNCHANGED <<operation, build, consumed, line, stdout>>

\* standard input is exhausted: the loop ends and main returns
Eof ==
    /\ pc = "iter"
    /\ pc' = "done"
    /\ status' = "0"
    /\ UNCHANGED <<operation, build, consumed, line, result, stdout, stderr>>

Next == ReadLine \/ Emit \/ ExitFatal \/ PanicAbort \/ Eof

Spec == Init /\ [][Next]_vars

(***************************************************************************)
(* Properties.                                                             *)
(***************************************************************************)
OutputKinds == {"Single", "Multiple"}
FatalKinds == {"Exit", "Panic"}
\* the last call of execute was made on `line` and has ended
Executed == pc # "exec" /\ result.kind # "None"
\* the Outputs execute can return for a line, over the capacities its String
\* can have
OutputsOf(l) ==
    {out \in {execute(operation, l, c, build) : c \in Capacities(l)} :
        out.kind \in OutputKinds}
\* line k was printed as the one Output execute returns for it
PrintedAsExecuted(k) ==
    /\ OutputsOf(consumed[k]) # {}
    /\ \A out \in OutputsOf(consumed[k]) : stdout[k] = Render(out)

\* C1: when execute ends fatally on line k (the diagnostic exit or a panic),
\* the process has ended with a non-zero status and exactly that diagnostic
\* on standard error, nothing was printed for line k, line k is the last
\* line read, and the outputs of lines 1..k-1 are on standard output in
\* input order.
C1_FatalEndsRun ==
    result.kind \in FatalKinds =>
        /\ pc = "done"
        /\ status = (IF result.kind = "Exit" THEN "1" ELSE "101")
        /\ result.diag # ""
        /\ stderr = <<result.diag>>
        /\ consumed # <<>>
        /\ line = consumed[Len(consumed)]
        /\ \E c \in Capacities(line) :
              result = execute(operation, line, c, build)
        /\ Len(stdout) = Len(consumed) - 1
        /\ \A k \in 1..Len(stdout) : PrintedAsExecuted(k)

\* a run that printed the output of its first line and then took the
\* diagnostic exit on a later line
C1_Witness ==
    /\ status = "1"
    /\ result.kind = "Exit"
    /\ Len(consumed) >= 2
    /\ Len(stdout) = Len(consumed) - 1

\* C2 (state part): while no call has ended fatally, every line read has
\* been printed, except the line about to be executed; the k-th text on
\* standard output is the rendering of the one Output execute returns for
\* line k; nothing is on standard error.
C2_PrintedInStep ==
    result.kind \notin FatalKinds =>
        /\ Len(stdout) = Len(consumed) - (IF pc = "exec" THEN 1 ELSE 0)
        /\ stderr = <<>>
        /\ \A k \in 1..Len(stdout) : PrintedAsExecuted(k)

\* C2: in a run with no fatal condition the k-th output is the rendering of
\* execute(operation, line k), output k is written before line k+1 is read,
\* and no step changes the operation.
C2_OutputPerLine ==
    /\ []C2_PrintedInStep
    /\ [][operation' = operation /\ build' = build]_vars

\* a run that ended normally after printing different outputs for two lines
C2_Witness ==
    /\ status = "0"
    /\ Len(stdout) >= 2
    /\ consumed[1] # consumed[2]
    /\ stdout[1] # stdout[2]

\* the patterns an operation searches the line for
OpPatterns(op) ==
    CASE op.tag \in {"SplitAtPat", "CutFromPat", "CutFromPatToOffset",
                     "CutUntilPat", "TrimFromPat", "TrimUntilPat", "TrimToPat",
                     "Replace", "Remove", "CutFromPatToIndex",
                     "CutFromIndexToPat", "TrimFromPatToIndex",
                     "TrimFromIndexToPat"} -> {op.pattern}
      [] op.tag \in {"CutFromPatToPat", "TrimFromPatToPat"} -> {op.start, op.end}
      [] op.tag = "SplitAtChar" -> {<<op.char>>}
      [] op.tag = "Trim" -> {op.pattern[i] : i \in 1..Len(op.pattern)}
      [] OTHER -> {}

\* C3 (as claimed): a pattern-taking operation executed on a line in which
\* its pattern does not occur never ends fatally, it returns an Output.
C3_AbsentPatternNeverFatal ==
    (/\ Executed
     /\ OpPatterns(operation) # {}
     /\ \A p \in OpPatterns(operation) : find(line, p) = <<>>)
    => result.kind \in OutputKinds

\* C4 (as claimed): every range start..end handed to slicing has
\* start <= end.
C4_NoInvertedRange ==
    \A i \in 1..Len(result.ranges) :
        result.ranges[i].form = "a..b"
        => ULe(result.ranges[i].start, result.ranges[i].end)

\* s contains p as a substring
Contains(s, p) == Occurrences(s, p) # {}
\* the separator of SplitAtPat and SplitAtChar
Separator(op) == IF op.tag = "SplitAtChar" THEN <<op.char>> ELSE op.pattern
\* a SplitAtPat or SplitAtChar with no count was executed on `line`
UncountedSplit ==
    /\ Executed
    /\ operation.tag \in {"SplitAtPat", "SplitAtChar"}
    /\ operation.number = <<>>

\* C5 (as claimed): SplitAtPat and SplitAtChar with no count return segments
\* that joined with the separator give the input, and no segment contains
\* the separator.
C5_RoundTripNoSeparator ==
    UncountedSplit =>
        /\ result.kind = "Multiple"
        /\ join(result.segs, Separator(operation)) = line
        /\ \A i \in 1..Len(result.segs) :
              ~Contains(result.segs[i], Separator(operation))

\* C5 (amended): SplitAtPat and SplitAtChar with no count return segments
\* that joined with the separator give the input, for every separator, and
\* no segment contains the separator when the separator is not empty.
C5_RoundTrip ==
    UncountedSplit =>
        /\ result.kind = "Multiple"
        /\ join(result.segs, Separator(operation)) = line
        /\ Separator(operation) # <<>> =>
              \A i \in 1..Len(result.segs) :
                  ~Contains(result.segs[i], Separator(operation))

\* a split at a non-empty separator that gave three segments, one not empty
C5_Witness ==
    /\ UncountedSplit
    /\ Separator(operation) # <<>>
    /\ Len(result.segs) >= 3
    /\ \E i \in 1..Len(result.segs) : result.segs[i] # <<>>

\* the bytes of s that are not whitespace
NonBlank(s) == SelectSeq(s, LAMBDA c : ~is_whitespace(c))

\* C6 (as claimed): with a positive count N the split operations split at
\* most N times from the start: SplitAtPat and SplitAtChar return
\* min(N, occurrences) + 1 segments that joined with the separator give the
\* input; SplitAtWhitespace returns at most N + 1 segments and loses no
\* non-whitespace text.
C6_PositiveCountSplits ==
    (/\ Executed
     /\ operation.tag \in {"SplitAtPat", "SplitAtChar", "SplitAtWhitespace"}
     /\ operation.number # <<>>
     /\ operation.number[1] > 0)
    => /\ result.kind = "Multiple"
       /\ IF operation.tag = "SplitAtWhitespace"
          THEN /\ Len(result.segs) <= operation.number[1] + 1
               /\ NonBlank(Flatten(result.segs)) = NonBlank(line)
          ELSE /\ Len(result.segs)
                    = MinOf(operation.number[1],
                            Len(match_indices(line, Separator(operation), 0)))
                      + 1
               /\ join(result.segs, Separator(operation)) = line

\* C7 (as claimed): with a negative count N, SplitAtPat and SplitAtChar
\* return the segments in input order, |N| of them when the separator
\* occurs at least |N| - 1 times, and joined with the separator they give
\* the input.
C7_NegativeCountSplits ==
    (/\ Executed
     /\ operation.tag \in {"SplitAtPat", "SplitAtChar"}
     /\ operation.number # <<>>
     /\ operation.number[1] < 0)
    => /\ result.kind = "Multiple"
       /\ Len(match_indices(line, Separator(operation), 0))
             >= Abs(operation.number[1]) - 1
          => Len(result.segs) = Abs(operation.number[1])
       /\ join(result.segs, Separator(operation)) = line

\* s with its first n non-overlapping occurrences of p, from the left,
\* replaced by w
ReplaceFirst(s, p, w, n) ==
    join(Pieces(s, take(match_indices(s, p, 0), n), Len(p), 0), w)
\* s with its last n non-overlapping occurrences of p, from the right,
\* replaced by w
ReplaceLast(s, p, w, n) ==
    join(Reverse(RPieces(s, take(rmatch_indices(s, p, Len(s)), n), Len(p),
                         Len(s))), w)

\* C8 (as claimed, for a non-empty pattern): Replace with a positive count
\* N replaces the first min(N, occurrences) occurrences, with a negative
\* count the last min(|N|, occurrences), and keeps every other byte.
C8_CountedReplace ==
    (/\ Executed
     /\ operation.tag = "Replace"
     /\ operation.pattern # <<>>
     /\ operation.number # <<>>
     /\ operation.number[1] # 0)
    => /\ result.kind = "Single"
       /\ result.segs
            = <<IF operation.number[1] > 0
                THEN ReplaceFirst(line, operation.pattern, operation.with,
                                  operation.number[1])
                ELSE ReplaceLast(line, operation.pattern, operation.with,
                                 Abs(operation.number[1]))>>

\* s from offset i on, scanned left to right: every occurrence of p met is
\* replaced by w and the scan resumes after it; every other byte is kept.
\* The empty pattern occurs before every byte and at the end.
RECURSIVE ReplaceAllFrom(_, _, _, _)
ReplaceAllFrom(s, p, w, i) ==
    IF i >= Len(s) THEN (IF p = <<>> THEN w ELSE <<>>)
    ELSE IF p = <<>> THEN w \o <<s[i + 1]>> \o ReplaceAllFrom(s, p, w, i + 1)
    ELSE IF MatchAt(s, p, i) THEN w \o ReplaceAllFrom(s, p, w, i + Len(p))
    ELSE <<s[i + 1]>> \o ReplaceAllFrom(s, p, w, i + 1)

\* C9: Replace with no count returns Single of the input with every
\* non-overlapping occurrence of the pattern, scanned left to right,
\* replaced by `with`; Remove with no count returns what Replace with an
\* empty `with` returns.
C9_ReplaceAll ==
    (/\ Executed
     /\ operation.tag \in {"Replace", "Remove"}
     /\ operation.number = <<>>)
    => /\ result.kind = "Single"
       /\ result.segs
            = <<ReplaceAllFrom(line, operation.pattern,
                               IF operation.tag = "Replace"
                               THEN operation.with ELSE <<>>, 0)>>

\* a Replace that replaced two occurrences of a non-empty pattern by "b"
C9_Witness ==
    /\ Executed
    /\ operation.tag = "Replace"
    /\ operation.number = <<>>
    /\ operation.pattern # <<>>
    /\ operation.with = <<"b">>
    /\ Len(match_indices(line, operation.pattern, 0)) >= 2
    /\ result.kind = "Single"
    /\ result.segs[1] # line

\* C10 (as claimed, for non-empty patterns): TrimFromPat returns the prefix
\* before the first occurrence of the pattern; TrimFromPatToPat returns the prefix before
\* the first occurrence of the start pattern followed by the suffix that
\* starts at an occurrence of the end pattern, or the prefix alone when
\* the end pattern is not found.
C10_TrimExcises ==
    /\ (/\ Executed
        /\ operation.tag = "TrimFromPat"
        /\ operation.pattern # <<>>)
       => /\ result.kind = "Single"
          /\ result.segs
               = <<SubSeq(line, 1,
                          unwrap_or(find(line, operation.pattern), Len(line)))>>
    /\ (/\ Executed
        /\ operation.tag = "TrimFromPatToPat"
        /\ operation.start # <<>>
        /\ operation.end # <<>>
        /\ find(line, operation.start) # <<>>)
       => LET f == find(line, operation.start)[1]
              ends == {g \in Occurrences(line, operation.end) : g >= f}
          IN  /\ result.kind = "Single"
              /\ IF ends = {} THEN result.segs = <<SubSeq(line, 1, f)>>
                 ELSE \E g \in ends :
                         result.segs
                           = <<SubSeq(line, 1, f)
                               \o SubSeq(line, g + 1, Len(line))>>

\* f is the offset of the first occurrence of p in s
FirstAt(s, p, f) ==
    /\ MatchAt(s, p, f)
    /\ \A j \in 0..(f - 1) : ~MatchAt(s, p, j)
\* p does not occur in s
Absent(s, p) == \A i \in 0..Len(s) : ~MatchAt(s, p, i)

\* C11 (as claimed, for a non-empty pattern): TrimToPat returns the suffix
\* that starts right after the first occurrence of the pattern, and the
\* input unchanged when the pattern does not occur; it never ends fatally.
C11_TrimToPat ==
    (/\ Executed
     /\ operation.tag = "TrimToPat"
     /\ operation.pattern # <<>>)
    => /\ result.kind = "Single"
       /\ Absent(line, operation.pattern) => result.segs = <<line>>
       /\ \A f \in 0..Len(line) :
             FirstAt(line, operation.pattern, f)
             => result.segs
                  = <<SubSeq(line, f + Len(operation.pattern) + 1, Len(line))>>

\* C12 (as claimed): CutFromPatToOffset with offset >= 0 and s the first
\* occurrence of the pattern (0 if absent) takes the diagnostic exit
\* exactly when s + offset > len(input), and otherwise returns
\* Single(input[s..s+offset]).
C12_ForwardOffsetBounds ==
    (/\ Executed
     /\ operation.tag = "CutFromPatToOffset"
     /\ operation.offset >= 0)
    => LET s == unwrap_or(find(line, operation.pattern), 0)
       IN  IF s + operation.offset > Len(line)
           THEN result.kind = "Exit"
           ELSE /\ result.kind = "Single"
                /\ result.segs = <<SubSeq(line, s + 1, s + operation.offset)>>

\* C13 (as claimed): CutFromPatToOffset with offset < 0 and the first
\* occurrence s of the pattern at least |offset| bytes into the line
\* returns the |offset| bytes before the pattern, input[s-|offset|..s).
C13_BackwardOffset ==
    (/\ Executed
     /\ operation.tag = "CutFromPatToOffset"
     /\ operation.offset < 0)
    => \A s \in 0..Len(line) :
          (FirstAt(line, operation.pattern, s) /\ s >= Abs(operation.offset))
          => /\ result.kind = "Single"
             /\ result.segs
                  = <<SubSeq(line, s - Abs(operation.offset) + 1, s)>>

\* C14 (as claimed, where a <= b): CutFromPatToPat returns
\* Single(input[a..b]) with a the first occurrence of the start pattern, or
\* 0, and b the last occurrence of the end pattern, or len(input), whatever
\* the capacity of the String.
C14_CutFromPatToPat ==
    (Executed /\ operation.tag = "CutFromPatToPat")
    => LET a == unwrap_or(find(line, operation.start), 0)
           b == unwrap_or(rfind(line, operation.end), Len(line))
       IN  a <= b
           => /\ result.kind = "Single"
              /\ result.segs = <<SubSeq(line, a + 1, b)>>

\* C15: with f the first occurrence of the pattern, CutFromPatToIndex
\* takes the diagnostic exit when index < f, returns the input unchanged
\* when index = f and input[f..index] when f < index <= len(input);
\* CutFromIndexToPat takes the diagnostic exit when index > f, returns the
\* input unchanged when index = f and input[index..f] when index < f.
C15_MixedCuts ==
    /\ (Executed /\ operation.tag = "CutFromPatToIndex")
       => \A f \in 0..Len(line) :
             FirstAt(line, operation.pattern, f)
             => /\ operation.index < f
                   => result.kind = "Exit" /\ result.diag # ""
                /\ operation.index = f
                   => result.kind = "Single" /\ result.segs = <<line>>
                /\ (f < operation.index /\ operation.index <= Len(line))
                   => /\ result.kind = "Single"
                      /\ result.segs = <<SubSeq(line, f + 1, operation.index)>>
    /\ (Executed /\ operation.tag = "CutFromIndexToPat")
       => \A f \in 0..Len(line) :
             FirstAt(line, operation.pattern, f)
             => /\ operation.index > f
                   => result.kind = "Exit" /\ result.diag # ""
                /\ operation.index = f
                   => result.kind = "Single" /\ result.segs = <<line>>
                /\ operation.index < f
                   => /\ result.kind = "Single"
                      /\ result.segs = <<SubSeq(line, operation.index + 1, f)>>

\* a CutFromPatToIndex whose index equals the position of the pattern, not
\* at the start of the line, and that returned the line unchanged
C15_Witness ==
    /\ Executed
    /\ operation.tag = "CutFromPatToIndex"
    /\ operation.index > 0
    /\ FirstAt(line, operation.pattern, operation.index)
    /\ result.kind = "Single"
    /\ result.segs = <<line>>

\* C16: TrimFromIndexToIndex with end <= start returns the input unchanged,
\* also when the input is shorter than start or end; with
\* start < end <= len(input) it returns input[..start] followed by
\* input[end..], which is end - start bytes shorter than the input.
C16_TrimFromIndexToIndex ==
    (Executed /\ operation.tag = "TrimFromIndexToIndex")
    => /\ operation.end <= operation.start
          => result.kind = "Single" /\ result.segs = <<line>>
       /\ (operation.start < operation.end /\ operation.end <= Len(line))
          => /\ result.kind = "Single"
             /\ result.segs
                  = <<SubSeq(line, 1, operation.start)
                      \o SubSeq(line, operation.end + 1, Len(line))>>
             /\ Len(result.segs[1])
                  = Len(line) - (operation.end - operation.start)

\* an inverted range, 0 < end < start <= len(input), that left the line
\* unchanged
C16_Witness ==
    /\ Executed
    /\ operation.tag = "TrimFromIndexToIndex"
    /\ 0 < operation.end
    /\ operation.end < operation.start
    /\ operation.start <= Len(line)
    /\ result.kind = "Single"
    /\ result.segs = <<line>>

\* C17: CutUntilIndex returns the input unchanged when index = 0 and the
\* first `index` bytes when 1 <= index <= len(input).
C17_CutUntilIndex ==
    (Executed /\ operation.tag = "CutUntilIndex")
    => /\ operation.index = 0
          => result.kind = "Single" /\ result.segs = <<line>>
       /\ (1 <= operation.index /\ operation.index <= Len(line))
          => /\ result.kind = "Single"
             /\ result.segs = <<SubSeq(line, 1, operation.index)>>

\* index 0 on a line that is not empty returned the whole line
C17_Witness ==
    /\ Executed
    /\ operation.tag = "CutUntilIndex"
    /\ operation.index = 0
    /\ line # <<>>
    /\ result.segs = <<line>>

\* C18 (as claimed): TrimFromIndex with 0 <= index <= len(input) returns
\* input[..index], so index 0 gives the empty string.
C18_TrimFromIndex ==
    (/\ Executed
     /\ operation.tag = "TrimFromIndex"
     /\ operation.index <= Len(line))
    => /\ result.kind = "Single"
       /\ result.segs = <<SubSeq(line, 1, operation.index)>>

\* C19: CutFromPat returns Single of the suffix of the input that begins at
\* the first occurrence of the pattern, the whole input when the pattern
\* does not occur, and in every case a suffix of the input.
C19_CutFromPat ==
    (Executed /\ operation.tag = "CutFromPat")
    => /\ result.kind = "Single"
       /\ Absent(line, operation.pattern) => result.segs = <<line>>
       /\ \A f \in 0..Len(line) :
             FirstAt(line, operation.pattern, f)
             => result.segs = <<SubSeq(line, f + 1, Len(line))>>
       /\ \E k \in 0..Len(line) :
             result.segs = <<SubSeq(line, k + 1, Len(line))>>

\* a pattern that occurs twice, first after the start of the line
C19_Witness ==
    /\ Executed
    /\ operation.tag = "CutFromPat"
    /\ operation.pattern # <<>>
    /\ \E f \in 1..Len(line) :
          /\ FirstAt(line, operation.pattern, f)
          /\ \E g \in (f + 1)..Len(line) : MatchAt(line, operation.pattern, g)
    /\ result.kind = "Single"

\* C20: SplitAtIndex with 0 <= index <= len(input) returns Multiple of
\* exactly two segments, the first `index` bytes and the rest, whose
\* concatenation is the input.
C20_SplitAtIndex ==
    (/\ Executed
     /\ operation.tag = "SplitAtIndex"
     /\ operation.index <= Len(line))
    => /\ result.kind = "Multiple"
       /\ Len(result.segs) = 2
       /\ result.segs[1] = SubSeq(line, 1, operation.index)
       /\ result.segs[2] = SubSeq(line, operation.index + 1, Len(line))
       /\ result.segs[1] \o result.segs[2] = line

\* a split at the end of a line that is not empty: the second segment is
\* empty
C20_Witness ==
    /\ Executed
    /\ operation.tag = "SplitAtIndex"
    /\ line # <<>>
    /\ operation.index = Len(line)
    /\ result.kind = "Multiple"
    /\ result.segs = <<line, <<>>>>

\* C21 (as claimed): CutFromIndexToOffset with offset >= 0 and
\* index + offset <= len(input) returns input[index..index+offset]; with
\* offset < 0 and index >= |offset| it returns the |offset| bytes before
\* index, input[index-|offset|..index), with no overflow and no range of
\* another length.
C21_CutFromIndexToOffset ==
    (Executed /\ operation.tag = "CutFromIndexToOffset")
    => /\ (/\ operation.offset >= 0
           /\ operation.index + operation.offset <= Len(line))
          => /\ result.kind = "Single"
             /\ result.segs
                  = <<SubSeq(line, operation.index + 1,
                             operation.index + operation.offset)>>
       /\ (/\ operation.offset < 0
           /\ operation.index >= Abs(operation.offset)
           /\ operation.index <= Len(line))
          => /\ result.kind = "Single"
             /\ result.segs
                  = <<SubSeq(line, operation.index - Abs(operation.offset) + 1,
                             operation.index)>>
             /\ Len(result.segs[1]) = Abs(operation.offset)

====
